---- MODULE Spec2Model ----
(***************************************************************************)
(* Model of src/app.py: the Flask backend of the speech-recording study.   *)
(*                                                                         *)
(* Strings are modelled as sequences of tokens, so that an f-string is a   *)
(* concatenation (\o) and a split or a basename is an operation on the     *)
(* sequence.  A JSON object is a function from its keys to token           *)
(* sequences.  The local filesystem is a function from paths to contents.  *)
(* datetime.now() is a clock counted in the smallest unit %f shows;        *)
(* uuid.uuid4() draws a uuid never drawn before, whose hex is the pair     *)
(* <<first 8 hex digits, remaining 24 hex digits>>.                        *)
(***************************************************************************)
EXTENDS Integers, Sequences, FiniteSets, Bags, TLC

VARIABLES
    USE_S3,          \* app.py:21
    S3_BUCKET_NAME,  \* app.py:23
    s3_client,       \* app.py:27-44: "client", "None", or "unbound" (never assigned)
    clock,           \* datetime.datetime.now()
    uuids,           \* the uuids uuid.uuid4() has returned so far
    files,           \* the local filesystem: path -> content
    s3_objects,      \* the bucket: key -> content
    written,         \* the successful writes so far, a bag
    last             \* the last request handled and its response

vars == <<USE_S3, S3_BUCKET_NAME, s3_client, clock, uuids, files, s3_objects, written, last>>

----------------------------------------------------------------------------
(* Bounds *)

MaxClock == 1
TicksPerSecond == 1
MaxWrites == 2

----------------------------------------------------------------------------
(* Strings *)

\* The index of the last "/" token of s, 0 when there is none.
LastSlash(s) ==
    LET at == {i \in DOMAIN s : s[i] = "/"}
    IN  IF at = {} THEN 0 ELSE CHOOSE i \in at : \A j \in at : j <= i

\* s.split('/')[-1], and os.path.basename(s)
LastSegment(s) == SubSeq(s, LastSlash(s) + 1, Len(s))

\* '/' in s
HasSlash(s) == \E i \in DOMAIN s : s[i] = "/"

\* os.path.join(folder, name) for a relative name
PathJoin(folder, name) == <<folder, "/">> \o name

RECURSIVE StripLeft(_)
StripLeft(s) ==
    IF s # <<>> /\ Head(s) \in {".", "..", "_"} THEN StripLeft(Tail(s)) ELSE s

RECURSIVE StripRight(_)
StripRight(s) ==
    IF s # <<>> /\ s[Len(s)] \in {".", "..", "_"}
    THEN StripRight(SubSeq(s, 1, Len(s) - 1))
    ELSE s

RECURSIVE JoinWords(_)
\* "_".join(s.split()) once every path separator is a space
JoinWords(s) ==
    IF s = <<>> THEN <<>>
    ELSE IF Head(s) = "/"
         THEN IF Tail(s) # <<>> /\ Head(Tail(s)) = "/"
              THEN JoinWords(Tail(s))
              ELSE <<"_">> \o JoinWords(Tail(s))
         ELSE <<Head(s)>> \o JoinWords(Tail(s))

\* werkzeug.utils.secure_filename
secure_filename(s) == StripRight(StripLeft(JoinWords(s)))

----------------------------------------------------------------------------
(* Time and uuids *)

\* strftime("%Y%m%d%H%M%S")
Timestamp(now) == <<ToString(now \div TicksPerSecond)>>

\* strftime("%Y%m%d%H%M%S%f")
TimestampMicro(now) == <<ToString(now \div TicksPerSecond), ToString(now % TicksPerSecond)>>

UUIDs == {<<"0a1b2c3d", "e4f5">>, <<"0a1b2c3d", "a6b7">>, <<"9f8e7d6c", "e4f5">>}

\* uuid.hex
Hex(u) == u

\* uuid.hex[:8]
Hex8(u) == SubSeq(Hex(u), 1, 1)

----------------------------------------------------------------------------
(* Startup, app.py:21-68 *)

AUDIO_STORAGE_FOLDER == "data_storage/audio_recordings_local_simulated"
DEMOGRAPHICS_STORAGE_FOLDER == "data_storage/demographics_data"

\* The module-level name s3_client after lines 27-44.
InitS3Client(use_s3, bucket, region, boto_ok) ==
    IF use_s3
    THEN IF bucket = <<>> \/ region = <<>>
         THEN "unbound"
         ELSE IF boto_ok THEN "client" ELSE "None"
    ELSE "None"

NoRequest == [endpoint |-> "none", status |-> 0]

\* The environments the server is started in: USE_S3 unset (line 21's default),
\* and USE_S3=true with the bucket name, the region, or neither missing.
Environments ==
    {[USE_S3 |-> FALSE, S3_BUCKET_NAME |-> <<>>, AWS_REGION |-> <<>>],
     [USE_S3 |-> TRUE, S3_BUCKET_NAME |-> <<>>, AWS_REGION |-> <<"eu-west-1">>],
     [USE_S3 |-> TRUE, S3_BUCKET_NAME |-> <<"study-bucket">>, AWS_REGION |-> <<>>],
     [USE_S3 |-> TRUE, S3_BUCKET_NAME |-> <<"study-bucket">>, AWS_REGION |-> <<"eu-west-1">>]}

Init ==
    /\ \E env \in Environments, boto_ok \in BOOLEAN :
          /\ USE_S3 = env.USE_S3
          /\ S3_BUCKET_NAME = env.S3_BUCKET_NAME
          /\ s3_client = InitS3Client(env.USE_S3, env.S3_BUCKET_NAME, env.AWS_REGION, boto_ok)
    /\ clock = 0
    /\ uuids = {}
    /\ files = <<>>
    /\ s3_objects = <<>>
    /\ written = EmptyBag
    /\ last = NoRequest

----------------------------------------------------------------------------
(* Requests *)

\* The JSON objects over the keys K, key k taking its value in V[k].
Objects(K, V) ==
    UNION {{f \in [S -> UNION {V[k] : k \in K}] : \A k \in S : f[k] \in V[k]} : S \in SUBSET K}

\* What request.is_json and request.json make of a body:
\*   "not_json"   the content type is not JSON (is_json is False),
\*   "malformed"  a JSON content type, a body that does not parse,
\*   "non_object" a body that parses to a list, a string, a number or null,
\*   "object"     a body that parses to a dict.
JsonRequests(objects) ==
    {[content |-> c, json |-> <<>>] : c \in {"not_json", "malformed", "non_object"}}
    \cup {[content |-> "object", json |-> o] : o \in objects}

\* data.get(key, default)
Get(data, key, default) == IF key \in DOMAIN data THEN data[key] ELSE default

\* not data.get(key)
Falsy(data, key) == IF key \in DOMAIN data THEN data[key] = <<>> ELSE TRUE

\* data[key] = value
Put(data, key, value) ==
    [k \in DOMAIN data \cup {key} |-> IF k = key THEN value ELSE data[k]]

\* open(path, mode) and one write
Store(fs, path, content) ==
    [p \in DOMAIN fs \cup {path} |-> IF p = path THEN content ELSE fs[p]]

\* jsonify(body), status
Respond(endpoint, request, status, body) ==
    last' = [endpoint |-> endpoint, request |-> request, status |-> status, body |-> body]

NoWrite == UNCHANGED <<files, written>>

Static == UNCHANGED <<USE_S3, S3_BUCKET_NAME, s3_client, clock, s3_objects>>

----------------------------------------------------------------------------
(* POST /save_demographics, app.py:84-116 *)

\* The bodies posted: an "age" answer, and prolific_id absent, empty, supplied,
\* or the placeholder.
DemographicsObjects ==
    {Put(o, "age", <<"30">>) :
        o \in Objects({"prolific_id"},
                      [k \in {"prolific_id"} |-> {<<>>, <<"P1">>, <<"debug_participant_id">>}])}

DemographicsRequests == JsonRequests(DemographicsObjects)

\* A guard that takes an empty prolific_id for a supplied one.
NeedsGeneratedIdAbsentOnly(data) ==
    IF "prolific_id" \in DOMAIN data
    THEN data["prolific_id"] = <<"debug_participant_id">>
    ELSE TRUE

\* line 98: not participant_id or participant_id == 'debug_participant_id'
NeedsGeneratedId(data) ==
    IF Falsy(data, "prolific_id") THEN TRUE
    ELSE data["prolific_id"] = <<"debug_participant_id">>

\* line 99: f"debug_participant_{uuid.uuid4().hex[:8]}"
GeneratedId(u) == <<"debug_participant_">> \o Hex8(u)

\* The record left as it was posted.
WithoutGeneratedId(data, participant_id) == data

\* line 101: data['prolific_id'] = participant_id
WithGeneratedId(data, participant_id) == Put(data, "prolific_id", participant_id)

\* A filename without the timestamp.
demographics_filename_untimed(participant_id, timestamp) ==
    participant_id \o <<"_demographics", ".json">>

\* line 104: f"{participant_id}_demographics_{timestamp}.json"
demographics_filename(participant_id, timestamp) ==
    participant_id \o <<"_demographics_">> \o timestamp \o <<".json">>

\* line 109: json.dump(data, f, indent=4) into a file opened with 'w'
JsonDump(data) == [mode |-> "w", data |-> data]

\* lines 103-116, once participant_id and data are resolved; u is the uuid drawn
\* (<<>> when none was).
SaveRecord(req, participant_id, data, u) ==
    LET timestamp == Timestamp(clock)
        demographics_filepath ==
            PathJoin(DEMOGRAPHICS_STORAGE_FOLDER, demographics_filename(participant_id, timestamp))
    IN  \/ /\ BagCardinality(written) < MaxWrites
           /\ files' = Store(files, demographics_filepath, JsonDump(data))
           /\ written' = written (+) SetToBag(
                  {[endpoint |-> "save_demographics", participant_id |-> participant_id,
                    timestamp |-> timestamp, path |-> demographics_filepath, uuid |-> u]})
           /\ Respond("save_demographics", req, 200,
                  [message |-> <<"Demographics saved successfully!">>,
                   participant_id |-> participant_id])
        \/ \* open() or the write raises (line 108-109): the except of line 113
           /\ NoWrite
           /\ Respond("save_demographics", req, 500,
                  [error |-> <<"Failed to save demographics: ", "OSError">>])

save_demographics ==
    \E req \in DemographicsRequests :
        /\ Static
        /\ \/ \* line 89-91
              /\ req.content = "not_json"
              /\ Respond("save_demographics", req, 400, [error |-> <<"Request must be JSON">>])
              /\ NoWrite
              /\ UNCHANGED uuids
           \/ \* line 94, inside the try: request.json raises BadRequest, caught at 113
              /\ req.content = "malformed"
              /\ Respond("save_demographics", req, 500,
                     [error |-> <<"Failed to save demographics: ", "BadRequest">>])
              /\ NoWrite
              /\ UNCHANGED uuids
           \/ \* line 96: data.get raises AttributeError, caught at 113
              /\ req.content = "non_object"
              /\ Respond("save_demographics", req, 500,
                     [error |-> <<"Failed to save demographics: ", "AttributeError">>])
              /\ NoWrite
              /\ UNCHANGED uuids
           \/ /\ req.content = "object"
              /\ ~NeedsGeneratedId(req.json)
              /\ SaveRecord(req, req.json["prolific_id"], req.json, <<>>)
              /\ UNCHANGED uuids
           \/ /\ req.content = "object"
              /\ NeedsGeneratedId(req.json)
              /\ \E u \in UUIDs \ uuids :
                    /\ uuids' = uuids \cup {u}
                    /\ SaveRecord(req, GeneratedId(u),
                                  WithGeneratedId(req.json, GeneratedId(u)), u)

----------------------------------------------------------------------------
(* POST /get-presigned-url, app.py:120-189 *)

\* The bodies posted: fileType absent or audio/webm; participantId and taskType
\* absent or sent.
PresignObjects ==
    {<<>>}
    \cup {Put(o, "fileType", <<"audio", "/", "webm">>) :
            o \in Objects({"participantId", "taskType"},
                          [k \in {"participantId", "taskType"} |->
                              IF k = "participantId"
                              THEN {<<"..", "/", "P1">>}
                              ELSE {<<"free_speech">>}])}

PresignRequests == JsonRequests(PresignObjects)

\* line 154
ExpiresIn == 300

\* line 185
LocalEndpoint == <<"http://localhost:5000/simulate_local_audio_upload">>

\* line 142
S3Key(safe_participant_id, safe_task_type, timestamp, file_type) ==
    <<"speech_recordings", "/">> \o safe_participant_id \o <<"/">> \o safe_task_type
        \o <<"_">> \o timestamp \o <<".">> \o LastSegment(file_type)

\* lines 147-155: the URL the provider signs for a put_object of Key into Bucket
PresignedUrl(bucket, key, content_type) ==
    <<"https://">> \o bucket \o <<".s3.amazonaws.com/">> \o key
        \o <<"?Content-Type=">> \o content_type \o <<"&X-Amz-Expires=", ToString(ExpiresIn)>>

\* line 183
local_audio_filepath(s3_key) == PathJoin(AUDIO_STORAGE_FOLDER, LastSegment(s3_key))

\* lines 157-161
S3Grant(s3_key, file_type) ==
    [presignedUrl |-> PresignedUrl(S3_BUCKET_NAME, s3_key, file_type),
     s3Key |-> s3_key,
     message |-> <<"Upload directly to this URL.">>]

\* lines 184-189
LocalGrant(s3_key) ==
    [presignedUrl |-> LocalEndpoint,
     s3Key |-> s3_key,
     localFilePath |-> local_audio_filepath(s3_key),
     message |-> <<"Local simulation: Backend generated dummy URL for local upload.">>]

get_presigned_url ==
    \E req \in PresignRequests :
        /\ Static
        /\ NoWrite
        /\ UNCHANGED uuids
        /\ \/ \* line 123-124
              /\ req.content = "not_json"
              /\ Respond("get_presigned_url", req, 400, [error |-> <<"Request must be JSON">>])
           \/ \* line 126: request.json raises BadRequest, which Flask answers with 400
              /\ req.content = "malformed"
              /\ Respond("get_presigned_url", req, 400, [error |-> <<"BadRequest">>])
           \/ \* line 126: .get raises AttributeError, unhandled
              /\ req.content = "non_object"
              /\ Respond("get_presigned_url", req, 500, [error |-> <<"AttributeError">>])
           \/ \* line 131-132
              /\ req.content = "object"
              /\ Falsy(req.json, "fileType")
              /\ Respond("get_presigned_url", req, 400, [error |-> <<"fileType is required">>])
           \/ /\ req.content = "object"
              /\ ~Falsy(req.json, "fileType")
              /\ LET file_type == req.json["fileType"]
                     participant_id == Get(req.json, "participantId", <<"unknown_participant">>)
                     task_type == Get(req.json, "taskType", <<"unknown_task">>)
                     s3_key == S3Key(secure_filename(participant_id), secure_filename(task_type),
                                     TimestampMicro(clock), file_type)
                 IN  \/ \* line 145: USE_S3 and s3_client, the name s3_client unbound
                        /\ USE_S3
                        /\ s3_client = "unbound"
                        /\ Respond("get_presigned_url", req, 500, [error |-> <<"NameError">>])
                     \/ \* lines 146-161
                        /\ USE_S3
                        /\ s3_client = "client"
                        /\ Respond("get_presigned_url", req, 200, S3Grant(s3_key, file_type))
                     \/ \* lines 162-171: the signing call raises
                        /\ USE_S3
                        /\ s3_client = "client"
                        /\ Respond("get_presigned_url", req, 500,
                               [error |-> <<"Error generating pre-signed URL: ", "ClientError">>])
                     \/ \* lines 172-189
                        /\ (~USE_S3 \/ s3_client = "None") = TRUE
                        /\ Respond("get_presigned_url", req, 200, LocalGrant(s3_key))

----------------------------------------------------------------------------
(* POST /upload-complete, app.py:193-219 *)

UploadCompleteObjects ==
    Objects({"s3Key", "participantId", "localFilePath"},
            [k \in {"s3Key", "participantId", "localFilePath"} |->
                CASE k = "s3Key" ->
                        {S3Key(<<"P1">>, <<"free_speech">>, TimestampMicro(0), <<"webm">>)}
                  [] k = "participantId" -> {<<>>, <<"P1">>}
                  [] k = "localFilePath" ->
                        {local_audio_filepath(
                            S3Key(<<"P1">>, <<"free_speech">>, TimestampMicro(0), <<"webm">>))}])

UploadCompleteRequests == JsonRequests(UploadCompleteObjects)

\* A guard that lets localFilePath stand in for s3Key.
MissingRequiredEitherKey(data) ==
    IF Falsy(data, "s3Key") /\ Falsy(data, "localFilePath")
    THEN TRUE
    ELSE Falsy(data, "participantId")

\* line 206: not s3_key or not participant_id
MissingRequired(data) ==
    IF Falsy(data, "s3Key") THEN TRUE ELSE Falsy(data, "participantId")

upload_complete ==
    \E req \in UploadCompleteRequests :
        /\ Static
        /\ NoWrite
        /\ UNCHANGED uuids
        /\ \/ \* line 196-197
              /\ req.content = "not_json"
              /\ Respond("upload_complete", req, 400, [error |-> <<"Request must be JSON">>])
           \/ \* line 199: request.json raises BadRequest, which Flask answers with 400
              /\ req.content = "malformed"
              /\ Respond("upload_complete", req, 400, [error |-> <<"BadRequest">>])
           \/ \* line 200: .get raises AttributeError, unhandled
              /\ req.content = "non_object"
              /\ Respond("upload_complete", req, 500, [error |-> <<"AttributeError">>])
           \/ \* line 206-207
              /\ req.content = "object"
              /\ MissingRequired(req.json)
              /\ Respond("upload_complete", req, 400,
                     [error |-> <<"Missing s3Key or participantId">>])
           \/ \* line 219
              /\ req.content = "object"
              /\ ~MissingRequired(req.json)
              /\ Respond("upload_complete", req, 200,
                     [message |-> <<"Upload confirmation received and processed.">>])

----------------------------------------------------------------------------
(* PUT/POST /simulate_local_audio_upload, app.py:227-252 *)

\* request.data, and the Content-Type header when one is sent
AudioRequests ==
    {[data |-> d, headers |-> h] :
        d \in {<<>>, <<"b1", "b2">>},
        h \in Objects({"Content-Type"},
                      [k \in {"Content-Type"} |-> {<<"webm">>}])}

\* line 240
Extension(content_type) ==
    IF HasSlash(content_type) THEN LastSegment(content_type) ELSE <<"bin">>

\* A filename from the first 8 hex digits only.
local_sim_filename_short(u, extension) == <<"local_sim_">> \o Hex8(u) \o <<".">> \o extension

\* line 241: f"local_sim_{uuid.uuid4().hex}.{extension}"
local_sim_filename(u, extension) == <<"local_sim_">> \o Hex(u) \o <<".">> \o extension

\* A write that loses the last byte.
WriteBytesTruncated(data) == [mode |-> "wb", data |-> SubSeq(data, 1, Len(data) - 1)]

\* line 244-245: f.write(request.data) into a file opened with 'wb'
WriteBytes(data) == [mode |-> "wb", data |-> data]

simulate_local_audio_upload ==
    \E req \in AudioRequests :
        /\ Static
        /\ \/ \* line 230-232
              /\ req.data = <<>>
              /\ Respond("simulate_local_audio_upload", req, 400,
                     [error |-> <<"No audio data received">>])
              /\ NoWrite
              /\ UNCHANGED uuids
           \/ /\ req.data # <<>>
              /\ \E u \in UUIDs \ uuids :
                    LET content_type ==
                            Get(req.headers, "Content-Type", <<"application", "/", "octet-stream">>)
                        filename == local_sim_filename(u, Extension(content_type))
                        file_path == PathJoin(AUDIO_STORAGE_FOLDER, filename)
                    IN  /\ uuids' = uuids \cup {u}
                        /\ \/ /\ BagCardinality(written) < MaxWrites
                              /\ files' = Store(files, file_path, WriteBytes(req.data))
                              /\ written' = written (+) SetToBag(
                                     {[endpoint |-> "simulate_local_audio_upload",
                                       participant_id |-> <<>>, timestamp |-> <<>>,
                                       path |-> file_path, uuid |-> u]})
                              /\ Respond("simulate_local_audio_upload", req, 200,
                                     [message |-> <<"Local audio simulation successful!">>,
                                      filepath |-> file_path])
                           \/ \* open() or the write raises: the except of line 249
                              /\ NoWrite
                              /\ Respond("simulate_local_audio_upload", req, 500,
                                     [error |-> <<"Failed to simulate local audio save: ",
                                                  "OSError">>])

Tick ==
    /\ clock < MaxClock
    /\ clock' = clock + 1
    /\ UNCHANGED <<USE_S3, S3_BUCKET_NAME, s3_client, uuids, files, s3_objects, written, last>>

Next ==
    \/ Tick
    \/ save_demographics
    \/ get_presigned_url
    \/ upload_complete
    \/ simulate_local_audio_upload

Spec == Init /\ [][Next]_vars

----------------------------------------------------------------------------
(* Properties *)

Writes == BagToSet(written)

\* key is in the object and its value is not empty
Present(data, key) == IF key \in DOMAIN data THEN data[key] # <<>> ELSE FALSE

\* sub occurs in s
Contains(s, sub) == \E i \in 1..(Len(s) - Len(sub) + 1) : SubSeq(s, i, i + Len(sub) - 1) = sub

\* s begins with sub
StartsWith(s, sub) == Len(sub) <= Len(s) /\ SubSeq(s, 1, Len(sub)) = sub

JsonEndpoints == {"save_demographics", "get_presigned_url", "upload_complete"}

StorageFailed ==
    /\ last.status = 500
    /\ last.body.error = <<"Failed to save demographics: ", "OSError">>

\* C2, as claimed: every valid JSON body posted to /save_demographics, the write
\* succeeding, gets 200 with the supplied prolific_id when it is present and not
\* the placeholder, and with a generated id otherwise.
C2_EveryJsonBodySaved ==
    (last.endpoint = "save_demographics"
        /\ last.request.content \in {"non_object", "object"}
        /\ ~StorageFailed) =>
        /\ last.status = 200
        /\ LET data == last.request.json
           IN  IF "prolific_id" \in DOMAIN data /\ data["prolific_id"] # <<"debug_participant_id">>
               THEN last.body.participant_id = data["prolific_id"]
               ELSE \E u \in UUIDs : last.body.participant_id = <<"debug_participant_", u[1]>>

\* C2, amended: every JSON object posted to /save_demographics, the write
\* succeeding, gets 200 with the supplied prolific_id when it is present, not
\* empty and not the placeholder, and with a generated id otherwise; a JSON body
\* that is not an object gets 500.
C2_EveryJsonObjectSaved ==
    last.endpoint = "save_demographics" =>
        /\ last.request.content = "non_object" => last.status = 500
        /\ (last.request.content = "object" /\ ~StorageFailed) =>
              /\ last.status = 200
              /\ LET data == last.request.json
                 IN  IF Present(data, "prolific_id")
                        /\ data["prolific_id"] # <<"debug_participant_id">>
                     THEN last.body.participant_id = data["prolific_id"]
                     ELSE \E u \in uuids :
                             last.body.participant_id = <<"debug_participant_", u[1]>>

\* C2: an empty prolific_id was posted and answered with a generated id.
C2_EmptyIdReplaced ==
    /\ last.endpoint = "save_demographics"
    /\ last.status = 200
    /\ "prolific_id" \in DOMAIN last.request.json
    /\ last.request.json["prolific_id"] = <<>>
    /\ last.body.participant_id # <<>>

\* C3, as claimed: a body that is not JSON (wrong content type, or not parsing)
\* posted to a JSON-only endpoint gets 400.
C3_NonJsonRejectedWith400 ==
    (last.endpoint \in JsonEndpoints /\ last.request.content \in {"not_json", "malformed"})
        => last.status = 400

\* The request asks /get-presigned-url for a grant and names a fileType.
ValidPresignRequest ==
    /\ last.endpoint = "get_presigned_url"
    /\ last.request.content = "object"
    /\ Present(last.request.json, "fileType")

\* C4, as claimed: with USE_S3 requested and the bucket name or the region
\* missing, or the client failing to initialise, every valid /get-presigned-url
\* request gets 200 with the local endpoint and a localFilePath.
C4_IncompleteConfigurationIsLocalMode ==
    (USE_S3 /\ s3_client # "client" /\ ValidPresignRequest) =>
        /\ last.status = 200
        /\ last.body.presignedUrl = LocalEndpoint
        /\ "localFilePath" \in DOMAIN last.body

\* C5, as claimed: any two successful writes are two distinct stored objects.
C5_NoWriteReplacesAnother == BagCardinality(written) = Cardinality(DOMAIN files)

\* C5, amended: two successful writes end up as the same stored object exactly
\* when both are /save_demographics writes with the same resolved participant id
\* and the same whole-second timestamp; every /simulate_local_audio_upload write
\* is an object of its own.
C5_OnlySameSecondSavesCollide ==
    /\ DOMAIN files = {w.path : w \in Writes}
    /\ \A w \in Writes : w.endpoint = "simulate_local_audio_upload" => written[w] = 1
    /\ \A w1, w2 \in Writes :
          w1 # w2 =>
             ((w1.path = w2.path) <=>
                 /\ w1.endpoint = "save_demographics"
                 /\ w2.endpoint = "save_demographics"
                 /\ w1.participant_id = w2.participant_id
                 /\ w1.timestamp = w2.timestamp)

\* C5: two /save_demographics writes have ended up as one stored object, beside
\* none or more others.
C5_TwoSavesOneObject ==
    /\ BagCardinality(written) = MaxWrites
    /\ Cardinality(DOMAIN files) < MaxWrites
    /\ \E w \in Writes : w.endpoint = "save_demographics"

\* C6, as claimed: every stored object's filename carries the participant id
\* and a timestamp, whichever handler wrote it.
C6_EveryObjectNamespaced ==
    \A p \in DOMAIN files :
        \E w \in Writes :
            /\ w.path = p
            /\ w.participant_id # <<>>
            /\ w.timestamp # <<>>
            /\ Contains(LastSegment(p), w.participant_id)
            /\ Contains(LastSegment(p), w.timestamp)

\* C6, amended: every object stored by /save_demographics has a filename that
\* begins with the non-empty resolved participant id and carries the
\* whole-second timestamp of the write; an object stored by
\* /simulate_local_audio_upload is named local_sim_<uuid hex>.<extension>, with
\* neither a participant id nor a timestamp.
C6_DemographicsNamespaced ==
    /\ DOMAIN files = {w.path : w \in Writes}
    /\ \A w \in Writes :
          LET name == LastSegment(w.path)
          IN  IF w.endpoint = "save_demographics"
              THEN /\ w.participant_id # <<>>
                   /\ StartsWith(name, w.participant_id)
                   /\ \E now \in 0..clock :
                         /\ w.timestamp = <<ToString(now \div TicksPerSecond)>>
                         /\ Contains(SubSeq(name, Len(w.participant_id) + 1, Len(name)),
                                     w.timestamp)
              ELSE /\ w.participant_id = <<>>
                   /\ w.timestamp = <<>>
                   /\ StartsWith(name, <<"local_sim_">> \o w.uuid \o <<".">>)

\* C6: a demographics file and a simulated upload are both stored.
C6_BothKindsStored ==
    /\ \E w \in Writes : w.endpoint = "save_demographics" /\ w.path \in DOMAIN files
    /\ \E w \in Writes : w.endpoint = "simulate_local_audio_upload" /\ w.path \in DOMAIN files

\* C7, as claimed: a successful /save_demographics writes to the backend
\* selected at startup: with the cloud backend active, an object keyed
\* {participant_id}/{filename} in cloud storage.
C7_SavedToSelectedBackend ==
    (last.endpoint = "save_demographics" /\ last.status = 200) =>
        \E w \in Writes :
            /\ w.endpoint = "save_demographics"
            /\ w.participant_id = last.body.participant_id
            /\ IF USE_S3 /\ s3_client = "client"
               THEN (w.participant_id \o <<"/">> \o LastSegment(w.path)) \in DOMAIN s3_objects
               ELSE w.path \in DOMAIN files

\* A write of /save_demographics that generated its participant id.
Generated(w) == w.endpoint = "save_demographics" /\ w.uuid # <<>>

\* The stored record of w carries the participant id w resolved.
StoresId(w) ==
    /\ w.path \in DOMAIN files
    /\ "prolific_id" \in DOMAIN files[w.path].data
    /\ files[w.path].data["prolific_id"] = w.participant_id

\* C8, as claimed: a record saved without a prolific_id stores a freshly
\* generated identifier, and the identifiers of any two such calls are distinct.
C8_GeneratedIdsDistinct ==
    /\ \A w \in Writes : Generated(w) => (StoresId(w) /\ written[w] = 1)
    /\ \A w1, w2 \in Writes :
          (Generated(w1) /\ Generated(w2) /\ w1 # w2) => w1.participant_id # w2.participant_id

\* C8, amended: a record saved without a usable prolific_id stores the generated
\* identifier, debug_participant_ followed by the first 8 hex digits of a uuid
\* drawn for that call; the identifiers of two such calls are distinct exactly
\* when their uuids differ in those 8 digits.
C8_GeneratedIdsFromUuidPrefix ==
    /\ \A w \in Writes :
          Generated(w) =>
             /\ StoresId(w)
             /\ written[w] = 1
             /\ w.uuid \in uuids
             /\ w.participant_id = <<"debug_participant_", w.uuid[1]>>
    /\ \A w1, w2 \in Writes :
          (Generated(w1) /\ Generated(w2) /\ w1 # w2) =>
             /\ w1.uuid # w2.uuid
             /\ (w1.participant_id = w2.participant_id) <=> (w1.uuid[1] = w2.uuid[1])

\* C8: two calls have generated two different identifiers.
C8_TwoGeneratedIds ==
    \E w1, w2 \in Writes :
        /\ Generated(w1)
        /\ Generated(w2)
        /\ w1.participant_id # w2.participant_id

\* The response to /simulate_local_audio_upload fits its request, and the file
\* it names holds the bytes received.
AudioResponseFits ==
    last.endpoint = "simulate_local_audio_upload" =>
        /\ last.request.data = <<>> => last.status = 400
        /\ last.request.data # <<>> => last.status \in {200, 500}
        /\ last.status = 200 =>
              /\ last.body.filepath \in DOMAIN files
              /\ files[last.body.filepath] = [mode |-> "wb", data |-> last.request.data]

\* A step answered by /simulate_local_audio_upload with anything but 200 leaves
\* the files as they were.
AudioRefusalWritesNothing ==
    (last'.endpoint = "simulate_local_audio_upload" /\ last'.status # 200) => files' = files

\* C9: /simulate_local_audio_upload with an empty body returns 400 and writes
\* nothing; with a non-empty body, the write succeeding, it returns 200 and the
\* file at the returned filepath holds exactly the bytes of the body.
C9_UploadStoredByteIdentical == []AudioResponseFits /\ [][AudioRefusalWritesNothing]_vars

\* C9: a two-byte body was uploaded and is stored at the returned filepath.
C9_BytesStored ==
    /\ last.endpoint = "simulate_local_audio_upload"
    /\ last.status = 200
    /\ Len(last.request.data) = 2
    /\ last.body.filepath \in DOMAIN files
    /\ files[last.body.filepath].data = last.request.data

\* C10, as claimed: in local-simulation mode, bytes uploaded to the presignedUrl
\* of a grant are stored at that grant's localFilePath.
C10_UploadLandsAtLocalFilePath ==
    [][(/\ last.endpoint = "get_presigned_url"
        /\ last.status = 200
        /\ "localFilePath" \in DOMAIN last.body
        /\ last'.endpoint = "simulate_local_audio_upload"
        /\ last'.status = 200)
       => /\ last.body.localFilePath \in DOMAIN files'
          /\ files'[last.body.localFilePath].data = last'.request.data]_vars

====
